---- MODULE Spec2Model ----
(***************************************************************************)
(* SEO-Analyzer: URL validation / normalisation, reading time, score      *)
(* colours and debounce (src/src/utils/index.ts), the two mock analysis    *)
(* selectors and the submit flow and rendering of SeoAnalysisApp           *)
(* (src/src/api/mockData.ts).                                              *)
(*                                                                         *)
(* A JavaScript string is a sequence of one-character strings.  `new URL`  *)
(* is modelled by URLParse, the WHATWG URL parser without a base URL,      *)
(* restricted to what `protocol` and `hostname` need.  The inputs of the   *)
(* model are ASCII strings without "%", "[", "]", without an "xn--" label  *)
(* and without the scheme "file"; on those URLParse is exact.              *)
(***************************************************************************)
EXTENDS Integers, Sequences, FiniteSets, TLC

\* ------------------------------------------------------------------ bounds

\* Number of pieces an input of the pure URL functions is built from.
MaxParts == 3

\* Number of pieces the text typed into the app's input field is built from.
MaxAppParts == 2

\* The numbers given to the numeric utilities are -MaxNegative .. MaxNumber.
MaxNumber == 450

MaxNegative == 5

\* debounce is given a wait of 0 .. MaxWait milliseconds, and the debounced
\* function is called MaxCalls times at most.
MaxWait == 2

MaxCalls == 3

\* The clock runs from 0 to MaxTime.
MaxTime == 2

\* --------------------------------------------------------- string helpers

\* String.prototype.startsWith
StartsWith(s, p) == Len(s) >= Len(p) /\ SubSeq(s, 1, Len(p)) = p

\* White space of String.prototype.trim that the inputs can hold.
IsWhiteSpace(c) == c \in {" ", "\t"}

RECURSIVE TrimStart(_)
TrimStart(s) ==
  IF s # <<>> /\ IsWhiteSpace(Head(s)) THEN TrimStart(Tail(s)) ELSE s

RECURSIVE TrimEnd(_)
TrimEnd(s) ==
  IF s # <<>> /\ IsWhiteSpace(s[Len(s)]) THEN TrimEnd(SubSeq(s, 1, Len(s) - 1)) ELSE s

\* String.prototype.trim
Trim(s) == TrimEnd(TrimStart(s))

UpperAlpha ==
  <<"A","B","C","D","E","F","G","H","I","J","K","L","M",
    "N","O","P","Q","R","S","T","U","V","W","X","Y","Z">>

LowerAlpha ==
  <<"a","b","c","d","e","f","g","h","i","j","k","l","m",
    "n","o","p","q","r","s","t","u","v","w","x","y","z">>

Digits == <<"0","1","2","3","4","5","6","7","8","9">>

HexDigits == Digits \o <<"a","b","c","d","e","f">>

Range(s) == {s[i] : i \in DOMAIN s}

IsAlpha(c) == c \in Range(UpperAlpha) \cup Range(LowerAlpha)

IsDigit(c) == c \in Range(Digits)

\* First index of c in the sequence s, 0 when absent.
IndexOf(s, c) ==
  IF c \in Range(s) THEN CHOOSE i \in DOMAIN s : s[i] = c /\ \A j \in 1..(i - 1) : s[j] # c
  ELSE 0

\* ASCII lowercase of one character and of a string.
LowerChar(c) == IF c \in Range(UpperAlpha) THEN LowerAlpha[IndexOf(UpperAlpha, c)] ELSE c

LowerCase(s) == [i \in DOMAIN s |-> LowerChar(s[i])]

\* The first index of s whose character is in the set stop, Len(s)+1 when none.
FirstIn(s, stop) ==
  IF \E i \in DOMAIN s : s[i] \in stop
  THEN CHOOSE i \in DOMAIN s : s[i] \in stop /\ \A j \in 1..(i - 1) : s[j] \notin stop
  ELSE Len(s) + 1

\* The last index of c in s, 0 when absent.
LastIndexOf(s, c) ==
  IF c \in Range(s) THEN CHOOSE i \in DOMAIN s : s[i] = c /\ \A j \in (i + 1)..Len(s) : s[j] # c
  ELSE 0

\* s without its first n characters.
Drop(s, n) == SubSeq(s, n + 1, Len(s))

\* s split at every occurrence of c (String.prototype.split).
RECURSIVE Split(_, _)
Split(s, c) ==
  LET i == IndexOf(s, c)
  IN IF i = 0 THEN <<s>> ELSE <<SubSeq(s, 1, i - 1)>> \o Split(Drop(s, i), c)

\* ------------------------------------------------- new URL(input), no base

\* Outcome of new URL(input): failure is the TypeError the constructor throws;
\* protocol and hostname are the getters of the same names.
URLFailure == [failure |-> TRUE, protocol |-> <<>>, hostname |-> <<>>]

URLRecord(scheme, host) ==
  [failure |-> FALSE, protocol |-> scheme \o <<":">>, hostname |-> host]

\* Leading and trailing C0 control or space are removed from the input.
IsC0OrSpace(c) == c \in {" ", "\t", "\n", "\r"}

RECURSIVE StripLeading(_)
StripLeading(s) ==
  IF s # <<>> /\ IsC0OrSpace(Head(s)) THEN StripLeading(Tail(s)) ELSE s

RECURSIVE StripTrailing(_)
StripTrailing(s) ==
  IF s # <<>> /\ IsC0OrSpace(s[Len(s)])
  THEN StripTrailing(SubSeq(s, 1, Len(s) - 1)) ELSE s

\* Every ASCII tab or newline is removed from the input.
RemoveTabNewline(s) == SelectSeq(s, LAMBDA c : c \notin {"\t", "\n", "\r"})

IsSchemeChar(c) == IsAlpha(c) \/ IsDigit(c) \/ c \in {"+", "-", "."}

\* Scheme state: the first index of s that holds no scheme character, 0 when
\* there is none.
FirstNonSchemeChar(s) ==
  IF \E j \in DOMAIN s : ~IsSchemeChar(s[j])
  THEN CHOOSE j \in DOMAIN s : ~IsSchemeChar(s[j]) /\ \A m \in 1..(j - 1) : IsSchemeChar(s[m])
  ELSE 0

SchemeEndAt(s, i) == IF i # 0 /\ s[i] = ":" THEN i ELSE 0

\* Scheme start state and scheme state: the index of the ":" that ends the
\* scheme, 0 when the input has no scheme (a failure, there being no base).
SchemeEnd(s) ==
  IF s = <<>> \/ ~IsAlpha(s[1]) THEN 0 ELSE SchemeEndAt(s, FirstNonSchemeChar(s))

\* The special schemes other than "file".
SpecialSchemes ==
  { <<"h","t","t","p">>, <<"h","t","t","p","s">>, <<"f","t","p">>,
    <<"w","s">>, <<"w","s","s">> }

ForbiddenHostCodePoints ==
  {"\t", "\n", "\r", " ", "#", "/", ":", "<", ">", "?", "@", "[", "\\", "]", "^", "|"}

ForbiddenDomainCodePoints == ForbiddenHostCodePoints \cup {"%"}

\* Special authority slashes / ignore slashes states: every leading "/" and
\* "\" is skipped.
RECURSIVE DropSlashes(_)
DropSlashes(s) ==
  IF s # <<>> /\ Head(s) \in {"/", "\\"} THEN DropSlashes(Tail(s)) ELSE s

\* --- IPv4: a number is four bytes, most significant first, and an overflow
\* flag (the parser's numbers exceed the model checker's integers).
Zero32 == [b |-> <<0, 0, 0, 0>>, over |-> FALSE]

MulAdd(n, R, d) ==
  LET t0 == n.b[4] * R + d
      t1 == n.b[3] * R + (t0 \div 256)
      t2 == n.b[2] * R + (t1 \div 256)
      t3 == n.b[1] * R + (t2 \div 256)
  IN [b |-> <<t3 % 256, t2 % 256, t1 % 256, t0 % 256>>,
      over |-> n.over \/ (t3 \div 256) > 0]

RECURSIVE ParseRadix(_, _, _)
ParseRadix(s, R, acc) ==
  IF s = <<>> THEN acc
  ELSE ParseRadix(Tail(s), R, MulAdd(acc, R, IndexOf(HexDigits, LowerChar(Head(s))) - 1))

IsRadixDigit(c, R) ==
  LET i == IndexOf(HexDigits, LowerChar(c)) IN i # 0 /\ i <= R

NumberFailure == [failure |-> TRUE, n |-> Zero32]

ParseIPv4Digits(body, R) ==
  IF \E i \in DOMAIN body : ~IsRadixDigit(body[i], R) THEN NumberFailure
  ELSE [failure |-> FALSE, n |-> ParseRadix(body, R, Zero32)]

\* IPv4 number parser: [failure, n].
ParseIPv4Number(part) ==
  IF part = <<>> THEN NumberFailure
  ELSE IF Len(part) >= 2 /\ part[1] = "0" /\ part[2] \in {"x", "X"}
       THEN ParseIPv4Digits(Drop(part, 2), 16)
  ELSE IF Len(part) >= 2 /\ part[1] = "0" THEN ParseIPv4Digits(Drop(part, 1), 8)
  ELSE ParseIPv4Digits(part, 10)

\* A last empty part is removed, unless it is the only part.
WithoutLastEmpty(parts) ==
  IF parts[Len(parts)] = <<>> /\ Len(parts) > 1
  THEN SubSeq(parts, 1, Len(parts) - 1) ELSE parts

\* The parts of a host between dots, a last empty part removed.
HostParts(host) == WithoutLastEmpty(Split(host, "."))

IsNumberPart(last) ==
  \/ last # <<>> /\ \A i \in DOMAIN last : IsDigit(last[i])
  \/ ~ParseIPv4Number(last).failure

LastPart(parts) == parts[Len(parts)]

\* Ends-in-a-number checker.
EndsInNumber(host) == IsNumberPart(LastPart(HostParts(host)))

\* Decimal digits of a byte.
ByteString(v) ==
  IF v >= 100 THEN <<Digits[(v \div 100) + 1], Digits[((v \div 10) % 10) + 1], Digits[(v % 10) + 1]>>
  ELSE IF v >= 10 THEN <<Digits[(v \div 10) + 1], Digits[(v % 10) + 1]>>
  ELSE <<Digits[v + 1]>>

HostFailure == [failure |-> TRUE, host |-> <<>>]

\* The i-th byte of the address: the parts before the last give one byte
\* each, the last part fills the rest.
Octet(nums, i) == IF i < Len(nums) THEN nums[i].n.b[4] ELSE nums[Len(nums)].n.b[i]

\* The checks of the IPv4 parser on the numbers of the parts, then the IPv4
\* serializer.
IPv4FromNumbers(nums) ==
  IF Len(nums) > 4 \/ \E i \in DOMAIN nums : nums[i].failure THEN HostFailure
  ELSE IF \E i \in 1..(Len(nums) - 1) : nums[i].n.over \/ \E j \in 1..3 : nums[i].n.b[j] # 0
       THEN HostFailure
  ELSE IF nums[Len(nums)].n.over \/ \E j \in 1..(Len(nums) - 1) : nums[Len(nums)].n.b[j] # 0
       THEN HostFailure
  ELSE [failure |-> FALSE,
        host |-> ByteString(Octet(nums, 1)) \o <<".">> \o ByteString(Octet(nums, 2)) \o <<".">>
                 \o ByteString(Octet(nums, 3)) \o <<".">> \o ByteString(Octet(nums, 4))]

ParsedNumbers(parts) == [i \in DOMAIN parts |-> ParseIPv4Number(parts[i])]

\* IPv4 parser followed by the IPv4 serializer: [failure, host].
ParseIPv4(host) == IPv4FromNumbers(ParsedNumbers(HostParts(host)))

\* A domain after domain to ASCII.
ParseDomain(asciiDomain) ==
  IF \E i \in DOMAIN asciiDomain : asciiDomain[i] \in ForbiddenDomainCodePoints
  THEN HostFailure
  ELSE IF EndsInNumber(asciiDomain) THEN ParseIPv4(asciiDomain)
  ELSE [failure |-> FALSE, host |-> asciiDomain]

\* Host parser: [failure, host].  A domain is ASCII-lowercased (domain to
\* ASCII on the model's inputs); an opaque host is kept as written.
ParseHost(buffer, isOpaque) ==
  IF isOpaque
  THEN IF \E i \in DOMAIN buffer : buffer[i] \in ForbiddenHostCodePoints
       THEN HostFailure
       ELSE [failure |-> FALSE, host |-> buffer]
  ELSE ParseDomain(LowerCase(buffer))

\* Port state: the port is a failure when it holds a character that is not a
\* digit or when its value exceeds 65535.
RECURSIVE PortValue(_, _)
PortValue(s, acc) ==
  IF s = <<>> THEN acc
  ELSE PortValue(Tail(s),
                 IF acc * 10 + (IndexOf(Digits, Head(s)) - 1) > 65535 THEN 65536
                 ELSE acc * 10 + (IndexOf(Digits, Head(s)) - 1))

PortFails(port) ==
  \/ \E i \in DOMAIN port : ~IsDigit(port[i])
  \/ PortValue(port, 0) > 65535

HostResult(scheme, parsed) ==
  IF parsed.failure THEN URLFailure ELSE URLRecord(scheme, parsed.host)

\* Host state and port state: buffer is the host as written, port what
\* follows its ":".
ParseHostAndPort(scheme, buffer, port, colonSeen, special) ==
  IF colonSeen /\ buffer = <<>> THEN URLFailure
  ELSE IF special /\ buffer = <<>> THEN URLFailure
  ELSE IF PortFails(port) THEN URLFailure
  ELSE HostResult(scheme, ParseHost(buffer, ~special))

SplitAtColon(scheme, hostport, colon, special) ==
  IF colon = 0 THEN ParseHostAndPort(scheme, hostport, <<>>, FALSE, special)
  ELSE ParseHostAndPort(scheme, SubSeq(hostport, 1, colon - 1), Drop(hostport, colon),
                        TRUE, special)

\* Authority state: what precedes the last "@" is the credentials; an
\* authority that ends with "@" is a failure.
AfterCredentials(scheme, authority, at, special) ==
  IF at # 0 /\ at = Len(authority) THEN URLFailure
  ELSE SplitAtColon(scheme, Drop(authority, at), IndexOf(Drop(authority, at), ":"), special)

AuthorityEnd(special) == IF special THEN {"/", "\\", "?", "#"} ELSE {"/", "?", "#"}

AuthorityOf(s, special) == SubSeq(s, 1, FirstIn(s, AuthorityEnd(special)) - 1)

WithAuthority(scheme, authority, special) ==
  AfterCredentials(scheme, authority, LastIndexOf(authority, "@"), special)

\* Authority, host and port states on the input that follows the slashes.
ParseAuthority(scheme, s, special) == WithAuthority(scheme, AuthorityOf(s, special), special)

\* After the scheme: a special scheme is followed by its authority, whatever
\* slashes come first; another scheme has an authority only after "//".
AfterScheme(scheme, rest) ==
  IF scheme \in SpecialSchemes THEN ParseAuthority(scheme, DropSlashes(rest), TRUE)
  ELSE IF StartsWith(rest, <<"/", "/">>) THEN ParseAuthority(scheme, Drop(rest, 2), FALSE)
  ELSE URLRecord(scheme, <<>>)

WithSchemeEnd(s, k) ==
  IF k = 0 THEN URLFailure ELSE AfterScheme(LowerCase(SubSeq(s, 1, k - 1)), Drop(s, k))

ParsePreprocessed(s) == WithSchemeEnd(s, SchemeEnd(s))

\* new URL(input)
URLParse(input) == ParsePreprocessed(RemoveTabNewline(StripTrailing(StripLeading(input))))

\* ------------------------------------------------------ src/utils/index.ts

Http == <<"h","t","t","p">>

HttpsPrefix == <<"h","t","t","p","s",":","/","/">>

UrlRequired == [isValid |-> FALSE, error |-> "URL is required"]

ProtocolError == [isValid |-> FALSE, error |-> "URL must use HTTP or HTTPS protocol"]

InvalidDomain == [isValid |-> FALSE, error |-> "Invalid domain name"]

InvalidFormat == [isValid |-> FALSE, error |-> "Invalid URL format"]

Valid == [isValid |-> TRUE]

\* ParseTarget of the trimmed input.
ParseTargetTrimmed(url) ==
  IF StartsWith(Trim(url), Http) THEN Trim(url) ELSE HttpsPrefix \o Trim(url)

\* The string validateUrl hands to new URL.
ParseTarget(url) == IF StartsWith(url, Http) THEN url ELSE HttpsPrefix \o url

\* IsBlank without the trim: !url
IsBlankUntrimmed(url) == url = <<>>

\* The check that opens validateUrl: !url.trim()
IsBlank(url) == Trim(url) = <<>>

\* HostnameTooShort with the bound off by one: hostname.length < 2
HostnameShorterThanTwo(hostname) == hostname = <<>> \/ Len(hostname) < 2

\* The hostname check of validateUrl.
HostnameTooShort(hostname) == hostname = <<>> \/ Len(hostname) < 3

\* validateUrl once new URL has returned or thrown.
CheckParsed(urlObj) ==
  IF urlObj.failure THEN InvalidFormat
  ELSE IF urlObj.protocol \notin {Http \o <<":">>, Http \o <<"s", ":">>} THEN ProtocolError
  ELSE IF HostnameTooShort(urlObj.hostname) THEN InvalidDomain
  ELSE Valid

validateUrl(url) ==
  IF IsBlank(url) THEN UrlRequired ELSE CheckParsed(URLParse(ParseTarget(url)))

\* normalizeUrl that puts https:// in front of every string.
NormalizeAlwaysPrefix(url) == HttpsPrefix \o url

\* normalizeUrl that looks for a scheme instead of the prefix "http".
NormalizeBySchemeCheck(url) == IF SchemeEnd(url) = 0 THEN HttpsPrefix \o url ELSE url

normalizeUrl(url) == IF ~StartsWith(url, Http) THEN HttpsPrefix \o url ELSE url

WordsPerMinute == 200

\* Math.ceil(n / d) for an integer n and a positive integer d: the quotient,
\* and one more when the division leaves a remainder.
Ceil(n, d) == IF n % d = 0 THEN n \div d ELSE (n \div d) + 1

\* calculateReadingTime that rounds to the nearest minute: Math.round in place
\* of Math.ceil.
CalculateReadingTimeRounded(wordCount) ==
  ((2 * wordCount) + WordsPerMinute) \div (2 * WordsPerMinute)

calculateReadingTime(wordCount) == Ceil(wordCount, WordsPerMinute)

getScoreColor(score) ==
  IF score >= 80 THEN "text-success-600"
  ELSE IF score >= 60 THEN "text-warning-600"
  ELSE "text-error-600"

\* getScoreBgColor whose good band starts above 80.
GetScoreBgColorAbove80(score) ==
  IF score > 80 THEN "bg-success-50"
  ELSE IF score >= 60 THEN "bg-warning-50"
  ELSE "bg-error-50"

getScoreBgColor(score) ==
  IF score >= 80 THEN "bg-success-50"
  ELSE IF score >= 60 THEN "bg-warning-50"
  ELSE "bg-error-50"

\* --------------------------------------------------- src/api/mockData.ts

\* new Date().toISOString() evaluated once, when the module is loaded: the
\* clock of the model starts there.
ModuleLoadTime == 0

BlogHost == <<"b","l","o","g",".","e","x","a","m","p","l","e",".","c","o","m">>

ShopHost == <<"s","h","o","p",".","e","x","a","m","p","l","e",".","c","o","m">>

AppHost == <<"a","p","p",".","e","x","a","m","p","l","e",".","c","o","m">>

mockDataBlog ==
  [ url |-> <<"h","t","t","p","s",":","/","/","b","l","o","g",".","e","x","a","m","p","l","e",".","c","o","m","/","w","e","b","-","p","e","r","f","o","r","m","a","n","c","e","-","o","p","t","i","m","i","z","a","t","i","o","n">>,
    timestamp |-> ModuleLoadTime,
    metadata |-> [ title |-> "Web Performance Optimization: A Complete Guide",
      description |-> "Learn essential techniques to optimize your website performance, improve loading times, and enhance user experience with our comprehensive guide.",
      titleLength |-> 45,
      descriptionLength |-> 149 ],
    headings |-> [ h1Count |-> 1,
      h1Text |-> <<"Web Performance Optimization: A Complete Guide">>,
      h2Count |-> 6,
      h3Count |-> 12 ],
    content |-> [wordCount |-> 2150, readingTime |-> 11, imageCount |-> 8, altTextMissing |-> 0],
    keywords |-> << [keyword |-> "performance", frequency |-> 23, density |-> "1.07"],
       [keyword |-> "optimization", frequency |-> 18, density |-> "0.84"],
       [keyword |-> "loading", frequency |-> 15, density |-> "0.70"],
       [keyword |-> "website", frequency |-> 12, density |-> "0.56"],
       [keyword |-> "speed", frequency |-> 10, density |-> "0.47"] >>,
    pageSpeed |-> [score |-> 92, metrics |-> [fcp |-> "1.2", lcp |-> "2.1", cls |-> "0.05", ttfb |-> "0.8"]],
    suggestions |-> << [ type |-> "info",
         message |-> "Consider adding structured data markup for better search visibility",
         impact |-> "medium" ],
       [ type |-> "info",
         message |-> "Add internal links to related articles to improve site navigation",
         impact |-> "low" ] >>,
    score |-> 94 ]

mockDataShop ==
  [ url |-> <<"h","t","t","p","s",":","/","/","s","h","o","p",".","e","x","a","m","p","l","e",".","c","o","m","/","p","r","o","d","u","c","t","s","/","w","i","r","e","l","e","s","s","-","h","e","a","d","p","h","o","n","e","s">>,
    timestamp |-> ModuleLoadTime,
    metadata |-> [ title |-> "Wireless Headphones",
      description |-> "Buy wireless headphones",
      titleLength |-> 18,
      descriptionLength |-> 25 ],
    headings |-> [ h1Count |-> 2,
      h1Text |-> <<"Wireless Headphones", "Product Details">>,
      h2Count |-> 3,
      h3Count |-> 1 ],
    content |-> [wordCount |-> 180, readingTime |-> 1, imageCount |-> 5, altTextMissing |-> 3],
    keywords |-> << [keyword |-> "headphones", frequency |-> 8, density |-> "4.44"],
       [keyword |-> "wireless", frequency |-> 6, density |-> "3.33"],
       [keyword |-> "bluetooth", frequency |-> 4, density |-> "2.22"],
       [keyword |-> "audio", frequency |-> 3, density |-> "1.67"],
       [keyword |-> "music", frequency |-> 2, density |-> "1.11"] >>,
    pageSpeed |-> [score |-> 67, metrics |-> [fcp |-> "2.8", lcp |-> "4.2", cls |-> "0.15", ttfb |-> "1.9"]],
    suggestions |-> << [ type |-> "critical",
         message |-> "Title tag is too short and not descriptive. Include brand, model, and key features.",
         impact |-> "high" ],
       [ type |-> "critical",
         message |-> "Meta description is too short and generic. Write compelling copy with product benefits.",
         impact |-> "high" ],
       [ type |-> "warning",
         message |-> "Multiple H1 tags found. Use only one H1 per page for better SEO.",
         impact |-> "medium" ],
       [ type |-> "warning",
         message |-> "3 images are missing alt text. Add descriptive alt attributes for accessibility.",
         impact |-> "medium" ],
       [ type |-> "warning",
         message |-> "Page has very little content. Add detailed product descriptions and specifications.",
         impact |-> "high" ] >>,
    score |-> 52 ]

mockDataApp ==
  [ url |-> <<"h","t","t","p","s",":","/","/","a","p","p",".","e","x","a","m","p","l","e",".","c","o","m","/","d","a","s","h","b","o","a","r","d">>,
    timestamp |-> ModuleLoadTime,
    metadata |-> [title |-> "Dashboard", description |-> "", titleLength |-> 9, descriptionLength |-> 0],
    headings |-> [h1Count |-> 0, h1Text |-> <<>>, h2Count |-> 4, h3Count |-> 8],
    content |-> [wordCount |-> 45, readingTime |-> 1, imageCount |-> 12, altTextMissing |-> 12],
    keywords |-> << [keyword |-> "dashboard", frequency |-> 3, density |-> "6.67"],
       [keyword |-> "loading", frequency |-> 2, density |-> "4.44"],
       [keyword |-> "data", frequency |-> 2, density |-> "4.44"],
       [keyword |-> "chart", frequency |-> 1, density |-> "2.22"],
       [keyword |-> "analytics", frequency |-> 1, density |-> "2.22"] >>,
    pageSpeed |-> [score |-> 34, metrics |-> [fcp |-> "4.1", lcp |-> "6.8", cls |-> "0.28", ttfb |-> "2.2"]],
    suggestions |-> << [ type |-> "critical",
         message |-> "Missing meta description. Add a compelling description for search results.",
         impact |-> "high" ],
       [ type |-> "critical",
         message |-> "Title tag is too generic. Include specific page purpose and brand name.",
         impact |-> "high" ],
       [ type |-> "critical",
         message |-> "No H1 tag found. Add a descriptive H1 heading for page hierarchy.",
         impact |-> "high" ],
       [ type |-> "critical",
         message |-> "All images missing alt text. Critical for accessibility and SEO.",
         impact |-> "high" ],
       [ type |-> "warning",
         message |-> "Very low content-to-code ratio. Consider server-side rendering for better SEO.",
         impact |-> "high" ] >>,
    score |-> 28 ]

mockAnalysisData ==
  (BlogHost :> mockDataBlog) @@
  (ShopHost :> mockDataShop) @@
  (AppHost :> mockDataApp)

MockResponseBlog ==
  [ url |-> <<"h","t","t","p","s",":","/","/","b","l","o","g",".","e","x","a","m","p","l","e",".","c","o","m","/","w","e","b","-","p","e","r","f","o","r","m","a","n","c","e","-","o","p","t","i","m","i","z","a","t","i","o","n">>,
    timestamp |-> ModuleLoadTime,
    metadata |-> [ title |-> "Web Performance Optimization: A Complete Guide",
      description |-> "Learn essential techniques to optimize your website performance, improve loading times, and enhance user experience with our comprehensive guide.",
      titleLength |-> 45,
      descriptionLength |-> 149 ],
    headings |-> [ h1Count |-> 1,
      h1Text |-> <<"Web Performance Optimization: A Complete Guide">>,
      h2Count |-> 6,
      h3Count |-> 12 ],
    content |-> [wordCount |-> 2150, readingTime |-> 11, imageCount |-> 8, altTextMissing |-> 0],
    keywords |-> << [keyword |-> "performance", frequency |-> 23, density |-> "1.07"],
       [keyword |-> "optimization", frequency |-> 18, density |-> "0.84"],
       [keyword |-> "loading", frequency |-> 15, density |-> "0.70"],
       [keyword |-> "website", frequency |-> 12, density |-> "0.56"],
       [keyword |-> "speed", frequency |-> 10, density |-> "0.47"] >>,
    pageSpeed |-> [score |-> 92, metrics |-> [fcp |-> "1.2", lcp |-> "2.1", cls |-> "0.05", ttfb |-> "0.8"]],
    suggestions |-> << [ type |-> "info",
         message |-> "Consider adding structured data markup for better search visibility",
         impact |-> "medium" ],
       [ type |-> "info",
         message |-> "Add internal links to related articles to improve site navigation",
         impact |-> "low" ] >>,
    score |-> 94 ]

\* The shop record with a score of its own.
ShopRecordRescored == [mockDataShop EXCEPT !.score = 53]

MockResponseShop ==
  [ url |-> <<"h","t","t","p","s",":","/","/","s","h","o","p",".","e","x","a","m","p","l","e",".","c","o","m","/","p","r","o","d","u","c","t","s","/","w","i","r","e","l","e","s","s","-","h","e","a","d","p","h","o","n","e","s">>,
    timestamp |-> ModuleLoadTime,
    metadata |-> [ title |-> "Wireless Headphones",
      description |-> "Buy wireless headphones",
      titleLength |-> 18,
      descriptionLength |-> 25 ],
    headings |-> [ h1Count |-> 2,
      h1Text |-> <<"Wireless Headphones", "Product Details">>,
      h2Count |-> 3,
      h3Count |-> 1 ],
    content |-> [wordCount |-> 180, readingTime |-> 1, imageCount |-> 5, altTextMissing |-> 3],
    keywords |-> << [keyword |-> "headphones", frequency |-> 8, density |-> "4.44"],
       [keyword |-> "wireless", frequency |-> 6, density |-> "3.33"],
       [keyword |-> "bluetooth", frequency |-> 4, density |-> "2.22"],
       [keyword |-> "audio", frequency |-> 3, density |-> "1.67"],
       [keyword |-> "music", frequency |-> 2, density |-> "1.11"] >>,
    pageSpeed |-> [score |-> 67, metrics |-> [fcp |-> "2.8", lcp |-> "4.2", cls |-> "0.15", ttfb |-> "1.9"]],
    suggestions |-> << [ type |-> "critical",
         message |-> "Title tag is too short and not descriptive. Include brand, model, and key features.",
         impact |-> "high" ],
       [ type |-> "critical",
         message |-> "Meta description is too short and generic. Write compelling copy with product benefits.",
         impact |-> "high" ],
       [ type |-> "warning",
         message |-> "Multiple H1 tags found. Use only one H1 per page for better SEO.",
         impact |-> "medium" ],
       [ type |-> "warning",
         message |-> "3 images are missing alt text. Add descriptive alt attributes for accessibility.",
         impact |-> "medium" ],
       [ type |-> "warning",
         message |-> "Page has very little content. Add detailed product descriptions and specifications.",
         impact |-> "high" ] >>,
    score |-> 52 ]

MockResponseApp ==
  [ url |-> <<"h","t","t","p","s",":","/","/","a","p","p",".","e","x","a","m","p","l","e",".","c","o","m","/","d","a","s","h","b","o","a","r","d">>,
    timestamp |-> ModuleLoadTime,
    metadata |-> [title |-> "Dashboard", description |-> "", titleLength |-> 9, descriptionLength |-> 0],
    headings |-> [h1Count |-> 0, h1Text |-> <<>>, h2Count |-> 4, h3Count |-> 8],
    content |-> [wordCount |-> 45, readingTime |-> 1, imageCount |-> 12, altTextMissing |-> 12],
    keywords |-> << [keyword |-> "dashboard", frequency |-> 3, density |-> "6.67"],
       [keyword |-> "loading", frequency |-> 2, density |-> "4.44"],
       [keyword |-> "data", frequency |-> 2, density |-> "4.44"],
       [keyword |-> "chart", frequency |-> 1, density |-> "2.22"],
       [keyword |-> "analytics", frequency |-> 1, density |-> "2.22"] >>,
    pageSpeed |-> [score |-> 34, metrics |-> [fcp |-> "4.1", lcp |-> "6.8", cls |-> "0.28", ttfb |-> "2.2"]],
    suggestions |-> << [ type |-> "critical",
         message |-> "Missing meta description. Add a compelling description for search results.",
         impact |-> "high" ],
       [ type |-> "critical",
         message |-> "Title tag is too generic. Include specific page purpose and brand name.",
         impact |-> "high" ],
       [ type |-> "critical",
         message |-> "No H1 tag found. Add a descriptive H1 heading for page hierarchy.",
         impact |-> "high" ],
       [ type |-> "critical",
         message |-> "All images missing alt text. Critical for accessibility and SEO.",
         impact |-> "high" ],
       [ type |-> "warning",
         message |-> "Very low content-to-code ratio. Consider server-side rendering for better SEO.",
         impact |-> "high" ] >>,
    score |-> 28 ]

MOCK_RESPONSES ==
  (BlogHost :> MockResponseBlog) @@
  (ShopHost :> MockResponseShop) @@
  (AppHost :> MockResponseApp)

\* The property names every object inherits from Object.prototype.
ObjectPrototypeProperties ==
  { <<"c","o","n","s","t","r","u","c","t","o","r">>,
    <<"_","_","p","r","o","t","o","_","_">>,
    <<"h","a","s","O","w","n","P","r","o","p","e","r","t","y">>,
    <<"i","s","P","r","o","t","o","t","y","p","e","O","f">>,
    <<"p","r","o","p","e","r","t","y","I","s","E","n","u","m","e","r","a","b","l","e">>,
    <<"t","o","L","o","c","a","l","e","S","t","r","i","n","g">>,
    <<"t","o","S","t","r","i","n","g">>,
    <<"v","a","l","u","e","O","f">>,
    <<"_","_","d","e","f","i","n","e","G","e","t","t","e","r","_","_">>,
    <<"_","_","d","e","f","i","n","e","S","e","t","t","e","r","_","_">>,
    <<"_","_","l","o","o","k","u","p","G","e","t","t","e","r","_","_">>,
    <<"_","_","l","o","o","k","u","p","S","e","t","t","e","r","_","_">> }

\* JavaScript `key in table`: own and inherited properties.
In(key, table) == key \in DOMAIN table \/ key \in ObjectPrototypeProperties

\* The own enumerable properties `...table[key]` copies: those of the record
\* for an own key; none for an inherited property (a function or
\* Object.prototype) and none for undefined.
Spread(table, key) == IF key \in DOMAIN table THEN table[key] ELSE <<>>

\* Math.floor(Math.random() * 40) takes the values 0 .. RandomRange - 1.
RandomRange == 40

ScoreBase == 60

RandomValues == 0..(RandomRange - 1)

InvalidUrlResponse ==
  [success |-> FALSE,
   error |-> [code |-> "INVALID_URL",
              message |-> "The provided URL is invalid or malformed",
              details |-> "Invalid URL"]]

\* MockSelect without its catch block: the default result whenever the
\* hostname is not to be had.
MockSelectWithoutCatch(url, urlObj, randomScore) ==
  IF ~urlObj.failure /\ In(urlObj.hostname, mockAnalysisData)
  THEN [success |-> TRUE,
        data |-> ("url" :> url) @@ Spread(mockAnalysisData, urlObj.hostname)]
  ELSE [success |-> TRUE,
        data |-> ("url" :> url) @@ ("score" :> randomScore)
                 @@ ("pageSpeed" :> (("score" :> randomScore) @@ mockAnalysisData[BlogHost].pageSpeed))
                 @@ mockAnalysisData[BlogHost]]

\* The try block of mockAnalyzeUrl once new URL has returned or thrown, with
\* table what mockAnalysisData holds when it runs.
MockSelectFrom(table, url, urlObj, randomScore) ==
  IF urlObj.failure THEN InvalidUrlResponse
  ELSE IF In(urlObj.hostname, table)
  THEN [success |-> TRUE,
        data |-> ("url" :> url) @@ Spread(table, urlObj.hostname)]
  ELSE [success |-> TRUE,
        data |-> ("url" :> url) @@ ("score" :> randomScore)
                 @@ ("pageSpeed" :> (("score" :> randomScore) @@ table[BlogHost].pageSpeed))
                 @@ table[BlogHost]]

\* The try block of mockAnalyzeUrl over the table as the module defines it.
MockSelect(url, urlObj, randomScore) ==
  MockSelectFrom(mockAnalysisData, url, urlObj, randomScore)

\* mockAnalyzeUrl once its delay has elapsed; rnd is Math.floor(Math.random() * 40).
mockAnalyzeUrl(url, rnd) == MockSelect(url, URLParse(url), rnd + ScoreBase)

\* The URL without its http:// or https://, taken for the hostname.
WithoutScheme(u) ==
  IF StartsWith(u, HttpsPrefix) THEN Drop(u, 8)
  ELSE IF StartsWith(u, Http \o <<":", "/", "/">>) THEN Drop(u, 7)
  ELSE u

\* AppSelect that looks the record up by the URL without its scheme instead
\* of by the hostname.
AppSelectByUrlText(targetUrl, urlObj, rnd) ==
  IF urlObj.failure THEN [threw |-> TRUE, value |-> <<>>]
  ELSE IF In(WithoutScheme(targetUrl), MOCK_RESPONSES)
  THEN [threw |-> FALSE,
        value |-> ("url" :> targetUrl) @@ Spread(MOCK_RESPONSES, WithoutScheme(targetUrl))]
  ELSE [threw |-> FALSE,
        value |-> ("url" :> targetUrl) @@ ("score" :> rnd + ScoreBase)
                  @@ MOCK_RESPONSES[BlogHost]]

\* analyzeUrl once new URL has returned or thrown, with table what
\* MOCK_RESPONSES holds when it runs.
AppSelectFrom(table, targetUrl, urlObj, rnd) ==
  IF urlObj.failure THEN [threw |-> TRUE, value |-> <<>>]
  ELSE IF In(urlObj.hostname, table)
  THEN [threw |-> FALSE,
        value |-> ("url" :> targetUrl) @@ Spread(table, urlObj.hostname)]
  ELSE [threw |-> FALSE,
        value |-> ("url" :> targetUrl) @@ ("score" :> rnd + ScoreBase)
                  @@ table[BlogHost]]

\* analyzeUrl over the table as the module defines it.
AppSelect(targetUrl, urlObj, rnd) == AppSelectFrom(MOCK_RESPONSES, targetUrl, urlObj, rnd)

\* analyzeUrl of SeoAnalysisApp once its delay has elapsed: the promise is
\* rejected (threw) when new URL throws, and fulfilled with value otherwise.
analyzeUrl(targetUrl, rnd) == AppSelect(targetUrl, URLParse(targetUrl), rnd)

\* ------------------------------------------------------------------ inputs

\* Every concatenation of at most n strings of P.
RECURSIVE Concats(_, _)
Concats(P, n) ==
  IF n = 0 THEN {<<>>}
  ELSE LET shorter == Concats(P, n - 1)
       IN shorter \cup {s \o q : s \in shorter, q \in P}

UrlPieces ==
  { <<"h","t","t","p">>,
    <<"s">>,
    <<":","/","/">>,
    <<":">>,
    <<"/">>,
    <<"e","x","a","m","p","l","e",".","c","o","m">>,
    <<"f","t","p">>,
    <<" ">>,
    <<"a","b">>,
    <<"8","0">>,
    <<"@">>,
    <<".">> }

\* The inputs of the tests and of the documentation, and a few of their kind.
NamedUrlInputs ==
  { <<>>,
    <<" "," "," ">>,
    <<" ","\t"," ">>,
    <<"i","n","v","a","l","i","d","-","u","r","l">>,
    <<"n","o","t"," ","a"," ","u","r","l">>,
    <<"h","t","t","p","b","i","n",".","o","r","g">>,
    <<"f","t","p",":","/","/","e","x","a","m","p","l","e",".","c","o","m">>,
    <<"h","t","t","p",":","/","/","a">>,
    <<"h","t","t","p","s",":","/","/","e","x","a","m","p","l","e",".","c","o","m">>,
    <<"h","t","t","p",":","/","/","e","x","a","m","p","l","e",".","c","o","m">>,
    <<"h","t","t","p","b","i","n",".","o","r","g",":","8","0">>,
    <<"H","T","T","P",":","/","/","e","x","a","m","p","l","e",".","c","o","m">>,
    <<"e","x","a","\t","m","p","l","e",".","c","o","m">>,
    <<"h","t","t","p","s",":","/","/","b","l","o","g",".","e","x","a","m","p","l","e",".","c","o","m">> }

UrlInputs == Concats(UrlPieces, MaxParts) \cup NamedUrlInputs

AppPieces ==
  { <<"b","l","o","g",".","e","x","a","m","p","l","e",".","c","o","m">>,
    <<"s","h","o","p",".","e","x","a","m","p","l","e",".","c","o","m">>,
    <<"a","p","p",".","e","x","a","m","p","l","e",".","c","o","m">>,
    <<"e","x","a","m","p","l","e",".","c","o","m">>,
    <<"c","o","n","s","t","r","u","c","t","o","r">>,
    <<"h","t","t","p","s",":","/","/">>,
    <<"h","t","t","p">>,
    <<":","8","0","8","0">>,
    <<"/","p","?","q">>,
    <<" ">> }

NamedAppInputs ==
  { <<"_","_","p","r","o","t","o","_","_">>,
    <<"h","t","t","p","s",":","/","/","S","h","o","p",".","E","x","a","m","p","l","e",".","C","o","m",":","8","0","8","0","/","p","r","o","d","u","c","t","s","?","i","d","=","1","#","t","o","p">>,
    <<"h","t","t","p",":","/","/","u","s","e","r","@","a","p","p",".","e","x","a","m","p","l","e",".","c","o","m",":","/","d","a","s","h","b","o","a","r","d">>,
    <<"f","t","p",":","/","/","e","x","a","m","p","l","e",".","c","o","m">>,
    <<"a","b">> }

AppInputs == Concats(AppPieces, MaxAppParts) \cup NamedAppInputs

\* The arguments mockAnalyzeUrl is called with: any string.
ApiInputs == AppInputs \cup {normalizeUrl(s) : s \in AppInputs}

\* ------------------------------------------------------------------- state

VARIABLES
  input,           \* argument of the utility function under test
  result,          \* Null, or <<[op, value]>>: the last call and what it returned
  client,          \* "app": SeoAnalysisApp is mounted; "api": mockAnalyzeUrl is called
  url,             \* useState url: the text of the input field
  loadingState,    \* useState loadingState
  analysisResult,  \* useState analysisResult: Null or <<result>>
  error,           \* useState error: Null or <<message>>
  pending,         \* target URLs of the analyzeUrl promises whose timer has not fired
  apiCall,         \* Null or <<url>>: the argument mockAnalyzeUrl was called with
  apiResponse,     \* Null or <<response>>: what the promise of that call resolved with
  now,             \* Date.now(), counted from the moment the module was loaded
  submittedAt,     \* Null or <<t>>: the clock when the last request was submitted
  wait,            \* debounce(func, wait): the delay
  timers,          \* the timers set by setTimeout that are neither fired nor cleared
  timeout,         \* let timeout of debounce: Null (undefined) or <<id>>
  calls,           \* the calls of the debounced function so far: [args, at]
  invoked,         \* the invocations of func so far: [args, at, after]
  liveTable,       \* the table object of the selector as it is now
  held,            \* Null or <<r>>: a result a caller holds, and what it shares
  later            \* Null or <<r>>: what a later call of the selector returned

vars == <<input, result, client, url, loadingState, analysisResult, error,
          pending, apiCall, apiResponse, now, submittedAt, wait, timers, timeout,
          calls, invoked, liveTable, held, later>>

utilVars == <<input, result>>

appVars == <<url, loadingState, analysisResult, error, pending>>

apiVars == <<apiCall, apiResponse>>

clockVars == <<now, submittedAt>>

debounceVars == <<wait, timers, timeout, calls, invoked>>

tableVars == <<liveTable, held, later>>

\* null; a value v that may be null is <<v>>.
Null == <<>>

\* The state of SeoAnalysisApp when it is mounted.
AppInit ==
  /\ url = <<>>
  /\ loadingState = "idle"
  /\ analysisResult = Null
  /\ error = Null
  /\ pending = <<>>

ApiInit == apiCall = Null /\ apiResponse = Null

\* The clock when the module has just been loaded.
ClockInit == now = ModuleLoadTime /\ submittedAt = Null

\* The table the selector of the client reads: mockAnalysisData for the
\* exported mockAnalyzeUrl, MOCK_RESPONSES for the app.
TableOf(c) == IF c = "api" THEN mockAnalysisData ELSE MOCK_RESPONSES

\* The tables as the module defines them, and no result handed out.
TablesInit ==
  /\ liveTable = TableOf(client)
  /\ held = Null
  /\ later = Null

\* No debounced function has been made.
NoDebounce ==
  /\ wait = 0
  /\ timers = {}
  /\ timeout = Null
  /\ calls = <<>>
  /\ invoked = <<>>

\* ------------------------------------------- the utility functions, called

CallValidateUrl ==
  /\ result' = <<[op |-> "validateUrl", value |-> validateUrl(input)]>>
  /\ UNCHANGED <<input, client, appVars, apiVars, clockVars, debounceVars, tableVars>>

CallNormalizeUrl ==
  /\ result' = <<[op |-> "normalizeUrl", value |-> normalizeUrl(input)]>>
  /\ UNCHANGED <<input, client, appVars, apiVars, clockVars, debounceVars, tableVars>>

UrlInit ==
  /\ input \in UrlInputs
  /\ result = Null
  /\ client = "app"
  /\ AppInit
  /\ ApiInit
  /\ ClockInit
  /\ NoDebounce
  /\ TablesInit

UrlNext == CallValidateUrl \/ CallNormalizeUrl

\* validateUrl and normalizeUrl applied to every input.
SpecUrl == UrlInit /\ [][UrlNext]_vars

CallCalculateReadingTime ==
  /\ result' = <<[op |-> "calculateReadingTime", value |-> calculateReadingTime(input)]>>
  /\ UNCHANGED <<input, client, appVars, apiVars, clockVars, debounceVars, tableVars>>

CallGetScoreColor ==
  /\ result' = <<[op |-> "getScoreColor", value |-> getScoreColor(input)]>>
  /\ UNCHANGED <<input, client, appVars, apiVars, clockVars, debounceVars, tableVars>>

CallGetScoreBgColor ==
  /\ result' = <<[op |-> "getScoreBgColor", value |-> getScoreBgColor(input)]>>
  /\ UNCHANGED <<input, client, appVars, apiVars, clockVars, debounceVars, tableVars>>

\* The word counts and scores the numeric utilities are called with.
NumInputs == (0 - MaxNegative)..MaxNumber

NumInit ==
  /\ input \in NumInputs
  /\ result = Null
  /\ client = "app"
  /\ AppInit
  /\ ApiInit
  /\ ClockInit
  /\ NoDebounce
  /\ TablesInit

NumNext == CallCalculateReadingTime \/ CallGetScoreColor \/ CallGetScoreBgColor

\* calculateReadingTime, getScoreColor and getScoreBgColor applied to every
\* input.
SpecNum == NumInit /\ [][NumNext]_vars

\* ---------------------------------------------------------- SeoAnalysisApp

\* The main render: the error panel, the results or the form.
ErrorPanelRendered == loadingState = "error" /\ error # Null

ResultsRendered == loadingState = "success" /\ analysisResult # Null

\* The form with every panel shown in its place.
FormRenderedUnlessError == loadingState # "error"

FormRendered == loadingState \in {"idle", "loading"}

\* disabled of the input field.
InputDisabled == loadingState = "loading"

\* The submit button disabled for a blank text only.
SubmitDisabledWhenBlank == IsBlank(url)

\* disabled of the submit button.
SubmitDisabled == loadingState = "loading" \/ IsBlank(url)

\* The text of error is on the screen: renderError is the one place that
\* puts it there.
ErrorTextShown == ErrorPanelRendered

\* onChange of the input field, which is rendered with the form and disabled
\* while loadingState is loading: text is typed, pasted or cleared.
EditUrl ==
  /\ client = "app"
  /\ FormRendered
  /\ ~InputDisabled
  /\ \/ \E q \in AppPieces : url \o q \in AppInputs /\ url' = url \o q
     \/ \E s \in NamedAppInputs : url' = s
     \/ url' = <<>>
  /\ UNCHANGED <<loadingState, analysisResult, error, pending, utilVars, client, apiVars, clockVars, debounceVars, tableVars>>

\* handleAnalyzeUrl that goes on to the analysis whatever the validation
\* says.
AfterValidationWithoutReturn(validation) ==
  /\ error' = IF ~validation.isValid THEN <<validation.error>> ELSE Null
  /\ loadingState' = "loading"
  /\ pending' = Append(pending, normalizeUrl(url))

\* handleAnalyzeUrl that enters the loading state and starts no analysis.
AfterValidationWithoutAnalysis(validation) ==
  IF ~validation.isValid
  THEN /\ error' = <<validation.error>>
       /\ UNCHANGED <<loadingState, pending>>
  ELSE /\ error' = Null
       /\ loadingState' = "loading"
       /\ UNCHANGED pending

\* handleAnalyzeUrl from the validation to its await.
AfterValidation(validation) ==
  IF ~validation.isValid
  THEN /\ error' = <<IF "error" \in DOMAIN validation THEN validation.error
                     ELSE "Invalid URL">>
       /\ UNCHANGED <<loadingState, pending>>
  ELSE /\ error' = Null
       /\ loadingState' = "loading"
       /\ pending' = Append(pending, normalizeUrl(url))

\* handleAnalyzeUrl up to its await, on the submit of the form.
Submit ==
  /\ client = "app"
  /\ FormRendered
  /\ ~SubmitDisabled
  /\ analysisResult' = Null
  /\ AfterValidation(validateUrl(url))
  /\ submittedAt' = <<now>>
  /\ UNCHANGED <<url, utilVars, client, apiVars, now, debounceVars, tableVars>>

\* s without its i-th element.
RemoveAt(s, i) == SubSeq(s, 1, i - 1) \o SubSeq(s, i + 1, Len(s))

\* handleAnalyzeUrl after its await: the try block goes on, or the catch
\* block runs.
Resume(outcome) ==
  IF outcome.threw
  THEN /\ error' = <<"Failed to analyze URL. Please try again.">>
       /\ loadingState' = "error"
       /\ UNCHANGED analysisResult
  ELSE /\ analysisResult' = <<outcome.value>>
       /\ loadingState' = "success"
       /\ UNCHANGED error

\* The timer of a pending analyzeUrl fires: analyzeUrl runs to its end and
\* handleAnalyzeUrl resumes after its await.
TimerFires ==
  /\ client = "app"
  /\ \E i \in DOMAIN pending : \E rnd \in RandomValues :
       /\ pending' = RemoveAt(pending, i)
       /\ Resume(analyzeUrl(pending[i], rnd))
  /\ UNCHANGED <<url, utilVars, client, apiVars, clockVars, debounceVars, tableVars>>

\* The fields renderResults reads; reading a field of one that is missing
\* throws while rendering, and nothing is rendered any more.
ResultFields ==
  {"url", "timestamp", "metadata", "headings", "content", "keywords", "pageSpeed",
   "suggestions", "score"}

Renders(r) == ResultFields \subseteq DOMAIN r

\* handleNewAnalysis without its setUrl('').
NewAnalysisKeepsUrl ==
  /\ client = "app"
  /\ \/ ErrorPanelRendered
     \/ ResultsRendered /\ Renders(analysisResult[1])
  /\ analysisResult' = Null
  /\ error' = Null
  /\ loadingState' = "idle"
  /\ UNCHANGED <<url, pending, utilVars, client, apiVars, clockVars, debounceVars, tableVars>>

\* handleNewAnalysis, the onClick of "Try Again" (error panel) and of
\* "Analyze Another URL" (results panel).
NewAnalysis ==
  /\ client = "app"
  /\ \/ ErrorPanelRendered
     \/ ResultsRendered /\ Renders(analysisResult[1])
  /\ url' = <<>>
  /\ analysisResult' = Null
  /\ error' = Null
  /\ loadingState' = "idle"
  /\ UNCHANGED <<pending, utilVars, client, apiVars, clockVars, debounceVars, tableVars>>

\* ---------------------------------------------------------- mockAnalyzeUrl

\* mockAnalyzeUrl(u) is called: its timer starts.  The function keeps no
\* state between calls, so one call is followed to its end.
CallMockAnalyzeUrl ==
  /\ client = "api"
  /\ apiCall = Null
  /\ \E u \in ApiInputs : apiCall' = <<u>>
  /\ submittedAt' = <<now>>
  /\ UNCHANGED <<apiResponse, utilVars, client, appVars, now, debounceVars, tableVars>>

\* The timer of mockAnalyzeUrl fires and its promise resolves.
MockApiResolves ==
  /\ client = "api"
  /\ apiCall # Null
  /\ apiResponse = Null
  /\ \E rnd \in RandomValues : apiResponse' = <<mockAnalyzeUrl(apiCall[1], rnd)>>
  /\ UNCHANGED <<apiCall, utilVars, client, appVars, clockVars, debounceVars, tableVars>>

Init ==
  /\ input = <<>>
  /\ result = Null
  /\ client \in {"app", "api"}
  /\ AppInit
  /\ ApiInit
  /\ ClockInit
  /\ NoDebounce
  /\ TablesInit

Next ==
  \/ EditUrl
  \/ Submit
  \/ TimerFires
  \/ NewAnalysis
  \/ CallMockAnalyzeUrl
  \/ MockApiResolves

\* The app in use, or the exported mockAnalyzeUrl called.
Spec == Init /\ [][Next]_vars

\* A timer leaves pending: among the steps of Next, those of TimerFires, which
\* is enabled exactly when a timer is pending.
TimerFired == \E i \in DOMAIN pending : pending' = RemoveAt(pending, i)

\* The app with its timers firing: a timer set by setTimeout that is not
\* cleared fires in the end, and nothing clears the timer of analyzeUrl.
SpecLive == Init /\ [][Next]_vars /\ WF_pending(TimerFired)

\* A millisecond goes by.
Tick ==
  /\ now < MaxTime
  /\ now' = now + 1
  /\ UNCHANGED <<utilVars, client, appVars, apiVars, submittedAt, debounceVars, tableVars>>

ClockNext == Next \/ Tick

\* The app or mockAnalyzeUrl, with the clock running.
SpecClock == Init /\ [][ClockNext]_vars

\* ------------------------------------------------ claims on the utilities

\* The last call was of op.
Called(op) == result # Null /\ result[1].op = op

\* What the last call returned.
Returned == result[1].value

HttpProtocols == {Http \o <<":">>, Http \o <<"s", ":">>}

FtpExample == <<"f","t","p",":","/","/","e","x","a","m","p","l","e",".","c","o","m">>

InvalidUrlExample == <<"i","n","v","a","l","i","d","-","u","r","l">>

NotAUrlExample == <<"n","o","t"," ","a"," ","u","r","l">>

HttpbinExample == <<"h","t","t","p","b","i","n",".","o","r","g">>

\* The input has no scheme: it does not start with a letter followed by
\* scheme characters up to a ":".
LacksScheme(s) == SchemeEnd(s) = 0

\* C1 as stated: validateUrl('ftp://example.com') is the protocol error.
C1_FtpIsProtocolError ==
  (Called("validateUrl") /\ input = FtpExample) => Returned = ProtocolError

\* C2 as stated: validateUrl('invalid-url') and validateUrl('not a url') are
\* both 'Invalid URL format'.
C2_MalformedIsInvalidFormat ==
  (Called("validateUrl") /\ input \in {InvalidUrlExample, NotAUrlExample})
    => Returned = InvalidFormat

\* C3 as stated, on its own example: 'httpbin.org' lacks a scheme and, with
\* https:// added, parses as an https URL whose hostname has at least 3
\* characters, so validateUrl returns exactly {isValid:true} for it.
C3_BareHttpDomainIsValid ==
  (/\ Called("validateUrl")
   /\ input = HttpbinExample
   /\ LET urlObj == URLParse(IF LacksScheme(input) THEN HttpsPrefix \o input ELSE input)
      IN /\ ~urlObj.failure
         /\ urlObj.protocol \in HttpProtocols
         /\ Len(urlObj.hostname) >= 3)
    => Returned = Valid

\* C4: validateUrl returns 'URL is required' for the empty string and for
\* every string of white space only, whatever the other checks would say.
C4_BlankIsRequired ==
  (Called("validateUrl") /\ \A i \in DOMAIN input : input[i] \in {" ", "\t"})
    => Returned = UrlRequired

C4_Witness ==
  /\ Called("validateUrl")
  /\ input = <<" ", " ", " ">>
  /\ Returned = UrlRequired

\* C5: whenever the string validateUrl parses is an http or https URL whose
\* hostname has fewer than 3 characters, validateUrl returns 'Invalid domain
\* name', and so never isValid:true; 'ab' and 'http://a' are such inputs.
C5_ShortHostIsInvalidDomain ==
  /\ (/\ Called("validateUrl")
      /\ LET urlObj == URLParse(ParseTarget(input))
         IN /\ ~urlObj.failure
            /\ urlObj.protocol \in HttpProtocols
            /\ Len(urlObj.hostname) < 3)
       => Returned = InvalidDomain
  /\ (Called("validateUrl") /\ input \in {<<"a", "b">>, Http \o <<":", "/", "/", "a">>})
       => Returned = InvalidDomain

C5_Witness ==
  /\ Called("validateUrl")
  /\ input = Http \o <<":", "/", "/", "a">>
  /\ Returned = InvalidDomain

\* C6 as stated, on a bare domain that begins with the letters 'http': the
\* non-empty string 'httpbin.org' has no scheme, so normalizeUrl returns it
\* prefixed with 'https://'.
C6_BareHttpDomainIsPrefixed ==
  (/\ Called("normalizeUrl")
   /\ input = HttpbinExample
   /\ input # <<>>
   /\ LacksScheme(input))
    => Returned = <<"h", "t", "t", "p", "s", ":", "/", "/">> \o input

FixedHosts == {BlogHost, ShopHost, AppHost}

\* What the selectors have returned in this state, each with the URL it was
\* called with: analyzeUrl with normalizeUrl(url), mockAnalyzeUrl with its
\* argument.
AppSelected ==
  IF analysisResult # Null
  THEN {[selector |-> "analyzeUrl", target |-> normalizeUrl(url), value |-> analysisResult[1],
         fixed |-> MOCK_RESPONSES]}
  ELSE {}

ApiSelected ==
  IF apiResponse # Null /\ apiResponse[1].success
  THEN {[selector |-> "mockAnalyzeUrl", target |-> apiCall[1], value |-> apiResponse[1].data,
         fixed |-> mockAnalysisData]}
  ELSE {}

Selected == AppSelected \cup ApiSelected

HostnameOf(u) == URLParse(u).hostname

\* C8 as stated: for every hostname that is not one of the three fixed keys
\* the selector returns a complete result, every field that of the blog
\* record but url and the scores.
C8_UnknownHostGetsFallback ==
  \A s \in Selected :
    HostnameOf(s.target) \notin FixedHosts =>
      /\ DOMAIN s.value = ResultFields
      /\ s.value.url = s.target
      /\ \A f \in ResultFields \ {"url", "score", "pageSpeed"} : s.value[f] = s.fixed[BlogHost][f]
      /\ s.value.pageSpeed.metrics = s.fixed[BlogHost].pageSpeed.metrics

\* C9 as stated, for the hosts that are no inherited property name: an
\* unknown host gets a result whose score and pageSpeed.score are equal and
\* in 60..99, from mockAnalyzeUrl and from the analyzeUrl of the app.
C9_FallbackScoresInSync ==
  \A s \in Selected :
    (/\ HostnameOf(s.target) \notin FixedHosts
     /\ HostnameOf(s.target) \notin ObjectPrototypeProperties)
      => /\ s.value.score \in 60..99
         /\ s.value.pageSpeed.score = s.value.score

\* C10: for a URL whose hostname is one of the three fixed keys, whatever
\* its port, path or query, each selector returns the record of that host
\* with only url replaced, by the URL it was called with: score 94 and
\* pageSpeed.score 92 for blog.example.com; score 52, titleLength 18, h1Count
\* 2 and 5 suggestions, the first two critical, for shop.example.com; score
\* 28 for app.example.com.
C10_FixedHostGetsItsRecord ==
  \A s \in Selected :
    HostnameOf(s.target) \in FixedHosts =>
      /\ s.value = [s.fixed[HostnameOf(s.target)] EXCEPT !.url = s.target]
      /\ HostnameOf(s.target) = BlogHost =>
           s.value.score = 94 /\ s.value.pageSpeed.score = 92
      /\ HostnameOf(s.target) = ShopHost =>
           /\ s.value.score = 52
           /\ s.value.metadata.titleLength = 18
           /\ s.value.headings.h1Count = 2
           /\ Len(s.value.suggestions) = 5
           /\ s.value.suggestions[1].type = "critical"
           /\ s.value.suggestions[2].type = "critical"
           /\ \A i \in 3..5 : s.value.suggestions[i].type # "critical"
      /\ HostnameOf(s.target) = AppHost => s.value.score = 28

\* The shop record selected by the app for a URL with an upper-case host, a
\* port, a path, a query and a fragment.
C10_Witness ==
  /\ loadingState = "success"
  /\ url = <<"h","t","t","p","s",":","/","/","S","h","o","p",".","E","x","a","m","p","l","e",".","C","o","m",":","8","0","8","0","/","p","r","o","d","u","c","t","s","?","i","d","=","1","#","t","o","p">>
  /\ analysisResult # Null
  /\ analysisResult[1].score = 52
  /\ analysisResult[1].url = url

\* ------------------------------------------- results in a caller's hands

\* The nested objects and lists of a result, each by its path.
ObjectPaths ==
  {<<"metadata">>, <<"headings">>, <<"headings", "h1Text">>, <<"content">>, <<"keywords">>,
   <<"pageSpeed">>, <<"pageSpeed", "metrics">>, <<"suggestions">>}

\* Which objects of the table the result of mockAnalyzeUrl is made of.  A
\* spread copies the value of each own property, and the value of a property
\* that holds an object or a list is the reference to it: every nested
\* object of {...record} is the object of record.  The default result has a
\* pageSpeed of its own, made by a second spread, whose metrics is the blog
\* record's.
MockShares(urlObj) ==
  IF urlObj.hostname \in DOMAIN mockAnalysisData
  THEN [from |-> urlObj.hostname, paths |-> ObjectPaths]
  ELSE IF In(urlObj.hostname, mockAnalysisData)
  THEN [from |-> urlObj.hostname, paths |-> {}]
  ELSE [from |-> BlogHost, paths |-> ObjectPaths \ {<<"pageSpeed">>}]

\* The same for analyzeUrl, whose default result is one spread of the blog
\* record.
AppShares(urlObj) ==
  IF urlObj.hostname \in DOMAIN MOCK_RESPONSES
  THEN [from |-> urlObj.hostname, paths |-> ObjectPaths]
  ELSE IF In(urlObj.hostname, MOCK_RESPONSES)
  THEN [from |-> urlObj.hostname, paths |-> {}]
  ELSE [from |-> BlogHost, paths |-> ObjectPaths]

SharesOf(u) == IF client = "api" THEN MockShares(URLParse(u)) ELSE AppShares(URLParse(u))

\* The result the selector of the client returns for u now.
SelectNow(u, rnd) ==
  IF client = "api"
  THEN MockSelectFrom(liveTable, u, URLParse(u), rnd + ScoreBase).data
  ELSE AppSelectFrom(liveTable, u, URLParse(u), rnd).value

\* The nested objects a result has.
PathsIn(r) == IF "metadata" \in DOMAIN r THEN ObjectPaths ELSE {}

\* r, a result or a record of the table, after an assignment to a property
\* of its object at path p, or a push to its list at p.
Touch(r, p) ==
  CASE p = <<"metadata">> -> [r EXCEPT !.metadata.title = "changed"]
    [] p = <<"headings">> -> [r EXCEPT !.headings.h2Count = -1]
    [] p = <<"headings", "h1Text">> -> [r EXCEPT !.headings.h1Text = Append(@, "changed")]
    [] p = <<"content">> -> [r EXCEPT !.content.wordCount = -1]
    [] p = <<"keywords">> ->
         [r EXCEPT !.keywords = Append(@, [keyword |-> "changed", frequency |-> 0, density |-> "0"])]
    [] p = <<"pageSpeed">> -> [r EXCEPT !.pageSpeed.score = -1]
    [] p = <<"pageSpeed", "metrics">> -> [r EXCEPT !.pageSpeed.metrics.fcp = "changed"]
    [] p = <<"suggestions">> ->
         [r EXCEPT !.suggestions = Append(@, [type |-> "info", message |-> "changed", impact |-> "low"])]

\* The URLs the selector is called with here: the three fixed hosts, an
\* unknown one and an inherited property name.
AliasUrls ==
  {HttpsPrefix \o h : h \in {BlogHost, ShopHost, AppHost,
                              <<"e","x","a","m","p","l","e",".","c","o","m">>,
                              <<"c","o","n","s","t","r","u","c","t","o","r">>}}

\* Math.floor(Math.random() * 40) at its least and at its greatest.
RandomExtremes == {0, RandomRange - 1}

\* The selector returns a result to a caller, who keeps it.
SelectHeld ==
  /\ held = Null
  /\ \E u \in AliasUrls : \E rnd \in RandomExtremes :
       held' = <<[value |-> SelectNow(u, rnd), shares |-> SharesOf(u), touched |-> FALSE]>>
  /\ UNCHANGED <<liveTable, later, utilVars, client, appVars, apiVars, clockVars, debounceVars>>

\* The caller changes a nested object of its result in place; an object the
\* result shares with the table is changed in the table too.
MutateHeld ==
  /\ held # Null
  /\ later = Null
  /\ ~held[1].touched
  /\ \E p \in PathsIn(held[1].value) :
       /\ held' = <<[held[1] EXCEPT !.value = Touch(@, p), !.touched = TRUE]>>
       /\ liveTable' = IF p \in held[1].shares.paths
                       THEN [liveTable EXCEPT ![held[1].shares.from] = Touch(@, p)]
                       ELSE liveTable
  /\ UNCHANGED <<later, utilVars, client, appVars, apiVars, clockVars, debounceVars>>

\* The selector is called again.
SelectLater ==
  /\ held # Null
  /\ later = Null
  /\ \E u \in AliasUrls : \E rnd \in RandomExtremes :
       later' = <<[url |-> u, rnd |-> rnd, value |-> SelectNow(u, rnd)]>>
  /\ UNCHANGED <<liveTable, held, utilVars, client, appVars, apiVars, clockVars, debounceVars>>

SharingNext == SelectHeld \/ MutateHeld \/ SelectLater

\* A selector, a caller that changes the result it was given, and the
\* selector again.
SpecSharing == Init /\ [][SharingNext]_vars

\* ---------------------------------------------------------------- debounce

\* The arguments the debounced function is called with.
Args == {"a", "b"}

\* clearTimeout that clears nothing.
ClearNothing(handle, table) == table

\* clearTimeout(handle): the timer of that id, if it is still in the table,
\* is removed; undefined and the id of a timer that has fired clear nothing.
ClearTimeout(handle, table) ==
  IF handle = Null THEN table ELSE {t \in table : t.id # handle[1]}

\* setTimeout(() => func(...args), wait) at the time now: the timer is due
\* wait milliseconds from now.
SetTimeout(id, args, table) ==
  table \cup {[id |-> id, args |-> args, due |-> now + wait]}

\* d = debounce(func, wait) has been made and not yet called.
DebounceInit ==
  /\ input = <<>>
  /\ result = Null
  /\ client = "app"
  /\ AppInit
  /\ ApiInit
  /\ ClockInit
  /\ TablesInit
  /\ wait \in 0..MaxWait
  /\ timers = {}
  /\ timeout = Null
  /\ calls = <<>>
  /\ invoked = <<>>

\* d(args): the function debounce returned is called.
CallDebounced ==
  /\ Len(calls) < MaxCalls
  /\ \E args \in Args :
       /\ timers' = SetTimeout(Len(calls) + 1, args, ClearTimeout(timeout, timers))
       /\ calls' = Append(calls, [args |-> args, at |-> now])
  /\ timeout' = <<Len(calls) + 1>>
  /\ UNCHANGED <<wait, invoked, utilVars, client, appVars, apiVars, clockVars, tableVars>>

\* A timer that is due fires, on time or late: its callback invokes func with
\* the arguments of the call that set it.
TimerCallback ==
  /\ \E t \in timers :
       /\ now >= t.due
       /\ timers' = timers \ {t}
       /\ invoked' = Append(invoked, [args |-> t.args, at |-> now, after |-> Len(calls)])
  /\ UNCHANGED <<wait, timeout, calls, utilVars, client, appVars, apiVars, clockVars, tableVars>>

DebounceNext == CallDebounced \/ TimerCallback \/ Tick

\* One debounced function, called and left alone as time goes by.
SpecDebounce == DebounceInit /\ [][DebounceNext]_vars

\* ------------------------------------------------------ claims on debounce

\* What holds of the calls and invocations so far.
DebounceSoFar ==
  /\ Cardinality(timers) <= 1
  /\ \A k \in DOMAIN invoked :
       /\ invoked[k].after \in DOMAIN calls
       /\ invoked[k].args = calls[invoked[k].after].args
       /\ invoked[k].at >= calls[invoked[k].after].at + wait
       /\ \A j \in DOMAIN invoked : invoked[j].after = invoked[k].after => j = k
  /\ \A c \in DOMAIN calls :
       (c < Len(calls) /\ calls[c + 1].at - calls[c].at < wait) =>
         \A k \in DOMAIN invoked : invoked[k].after # c
  /\ (calls # <<>> /\ timers = {}) =>
       \E k \in DOMAIN invoked : invoked[k].after = Len(calls)

\* C16: at most one timer is pending; func is invoked only when wait has gone
\* by since the latest call of the debounced function, with the arguments of
\* that call and once at most for it; a call followed by another within less
\* than wait never has its invocation, and once no timer is left the last
\* call has had its own; and a call of the debounced function never invokes
\* func itself.
C16_TrailingDebounce ==
  []DebounceSoFar /\ [][calls' # calls => invoked' = invoked]_vars

\* Two calls less than wait apart, with different arguments, and one
\* invocation, with the arguments of the second.
C16_Witness ==
  /\ Len(calls) = 2
  /\ calls[2].at - calls[1].at < wait
  /\ calls[1].args # calls[2].args
  /\ timers = {}
  /\ Len(invoked) = 1
  /\ invoked[1].args = calls[2].args

\* ---------------------------------------- claims on the request lifecycle

\* C11 as stated: the result returned for a fixed hostname has a timestamp
\* that is not earlier than the moment its request was submitted.
C11_TimestampRefreshed ==
  \A s \in Selected :
    HostnameOf(s.target) \in FixedHosts => s.value.timestamp >= submittedAt[1]

\* C12: a URL whose hostname extraction throws never produces a result.
\* mockAnalyzeUrl called with it resolves with success false, the code
\* INVALID_URL and no data; the app holds no result made for such a URL, and
\* whenever its loadingState is error, error is set and analysisResult is
\* null.
C12_ThrowIsReported ==
  /\ (apiResponse # Null /\ URLParse(apiCall[1]).failure) =>
        /\ ~apiResponse[1].success
        /\ apiResponse[1].error.code = "INVALID_URL"
        /\ "data" \notin DOMAIN apiResponse[1]
  /\ analysisResult # Null => ~URLParse(analysisResult[1].url).failure
  /\ loadingState = "error" => error # Null /\ analysisResult = Null

\* mockAnalyzeUrl('ab') has resolved: 'ab' has no scheme, new URL threw.
C12_Witness ==
  /\ apiCall = << <<"a", "b">> >>
  /\ apiResponse # Null
  /\ URLParse(apiCall[1]).failure
  /\ ~apiResponse[1].success

\* C13 as stated: whenever error is set, its text is on the screen.
C13_ErrorIsShown == error # Null => ErrorTextShown

\* ---------------------------------------- claims on the numeric utilities

\* The class a colour class name stands for.
ClassOf ==
  [c \in {"text-success-600", "bg-success-50"} |-> "good"]
  @@ [c \in {"text-warning-600", "bg-warning-50"} |-> "warning"]
  @@ [c \in {"text-error-600", "bg-error-50"} |-> "poor"]

\* C14: getScoreColor and getScoreBgColor return the good class exactly for
\* the scores of 80 and more, the warning class exactly for those from 60
\* to 79 and the poor class exactly for those below 60, and for every score
\* the two return the class of the same band.
C14_SameBands ==
  (Called("getScoreColor") \/ Called("getScoreBgColor")) =>
    /\ ClassOf[Returned] = "good" <=> input >= 80
    /\ ClassOf[Returned] = "warning" <=> (60 <= input /\ input < 80)
    /\ ClassOf[Returned] = "poor" <=> input < 60
    /\ ClassOf[getScoreColor(input)] = ClassOf[getScoreBgColor(input)]

\* getScoreBgColor(80) is the good background.
C14_Witness ==
  /\ Called("getScoreBgColor")
  /\ input = 80
  /\ Returned = "bg-success-50"

\* C15: for a word count of 0 or more calculateReadingTime returns the least
\* number of minutes m with 200 * m >= wordCount: 0 for 0 words, 1 for 1 to
\* 200 words, 2 for 201 to 400 words, and never less than for a smaller
\* word count.
C15_CeilingOfWordsPer200 ==
  (Called("calculateReadingTime") /\ input >= 0) =>
    /\ 200 * Returned >= input
    /\ 200 * (Returned - 1) < input
    /\ input = 0 => Returned = 0
    /\ input \in 1..200 => Returned = 1
    /\ input \in 201..400 => Returned = 2
    /\ \A w \in 0..input : calculateReadingTime(w) <= Returned

\* calculateReadingTime(201) is 2.
C15_Witness ==
  /\ Called("calculateReadingTime")
  /\ input = 201
  /\ Returned = 2

\* C17 as stated: in every result a selector returns, metadata.titleLength is
\* the number of characters of metadata.title and metadata.descriptionLength
\* that of metadata.description.
C17_LengthsAreCharacterCounts ==
  \A s \in Selected :
    "metadata" \in DOMAIN s.value =>
      /\ s.value.metadata.titleLength = Len(s.value.metadata.title)
      /\ s.value.metadata.descriptionLength = Len(s.value.metadata.description)

\* C18: loadingState changes from idle to loading, from loading to success
\* or to error, and from any state to idle, and in no other way.
C18_LoadingStateTransitions ==
  [][loadingState' # loadingState =>
       \/ loadingState = "idle" /\ loadingState' = "loading"
       \/ loadingState = "loading" /\ loadingState' \in {"success", "error"}
       \/ loadingState' = "idle"]_vars

\* A submitted request has come back with its result.
C18_Witness ==
  /\ loadingState = "success"
  /\ submittedAt # Null
  /\ pending = <<>>
  /\ analysisResult # Null

\* C19: one request at most is pending, and exactly while loadingState is
\* loading; while it is, the submit button and the input field are disabled
\* and neither panel with a reset button is rendered; the pending request
\* and every result held are for the URL in the input field, the one
\* submitted last.
C19_OneRequestInFlight ==
  /\ Len(pending) <= 1
  /\ loadingState = "loading" <=> pending # <<>>
  /\ loadingState = "loading" =>
       SubmitDisabled /\ InputDisabled /\ ~ErrorPanelRendered /\ ~ResultsRendered
  /\ \A i \in DOMAIN pending : pending[i] = normalizeUrl(url)
  /\ analysisResult # Null => analysisResult[1].url = normalizeUrl(url)

\* The request for shop.example.com is pending.
C19_Witness ==
  /\ loadingState = "loading"
  /\ url = ShopHost
  /\ pending = <<HttpsPrefix \o ShopHost>>

\* C20: a step that takes loadingState from another state to idle leaves
\* url empty and analysisResult and error null, and whenever loadingState is
\* error, analysisResult is null.
C20_ResetClearsEverything ==
  [][/\ (loadingState # "idle" /\ loadingState' = "idle") =>
          (url' = <<>> /\ analysisResult' = Null /\ error' = Null)
     /\ loadingState' = "error" => analysisResult' = Null]_vars

\* "Analyze Another URL" has been clicked: a request was submitted, and
\* nothing is left of it.
C20_Witness ==
  /\ loadingState = "idle"
  /\ submittedAt # Null
  /\ url = <<>>
  /\ analysisResult = Null
  /\ error = Null
  /\ pending = <<>>

\* ------------------------------------------------ claims on the submit flow

\* The URL a pending or finished analysis is for: normalizeUrl of an input
\* that validateUrl accepts.
FromAcceptedInput(target) == validateUrl(url).isValid /\ target = normalizeUrl(url)

\* C21: a submit of an input that validateUrl rejects starts no timer and
\* leaves loadingState as it is, idle, with analysisResult null and error
\* the message of validateUrl; and every URL analyzeUrl is called with is
\* normalizeUrl of an input that validateUrl accepts.
C21_RejectedSubmitStartsNothing ==
  /\ [](\A i \in DOMAIN pending : FromAcceptedInput(pending[i]))
  /\ [][(Submit /\ ~validateUrl(url).isValid) =>
          /\ pending' = pending
          /\ loadingState = "idle"
          /\ loadingState' = "idle"
          /\ analysisResult' = Null
          /\ error' = <<validateUrl(url).error>>]_vars

\* 'ab' has been submitted and turned down.
C21_Witness ==
  /\ url = <<"a", "b">>
  /\ submittedAt # Null
  /\ error = <<InvalidDomain.error>>
  /\ loadingState = "idle"
  /\ pending = <<>>
  /\ analysisResult = Null

\* C22: for every input validateUrl accepts, normalizeUrl returns the very
\* string validateUrl parsed, an http or https URL with a hostname of 3
\* characters or more; every pending analysis is for such a URL, and
\* loadingState is never error.
C22_ValidatedUrlAlwaysParses ==
  /\ validateUrl(url).isValid =>
       /\ normalizeUrl(url) = ParseTarget(url)
       /\ ~URLParse(normalizeUrl(url)).failure
       /\ URLParse(normalizeUrl(url)).protocol \in HttpProtocols
       /\ Len(URLParse(normalizeUrl(url)).hostname) >= 3
  /\ \A i \in DOMAIN pending : ~URLParse(pending[i]).failure
  /\ loadingState # "error"

\* An accepted input with credentials and an empty port has been analysed.
C22_Witness ==
  /\ url = <<"h","t","t","p",":","/","/","u","s","e","r","@","a","p","p",".","e","x","a","m","p","l","e",".","c","o","m",":","/","d","a","s","h","b","o","a","r","d">>
  /\ validateUrl(url).isValid
  /\ loadingState = "success"
  /\ pending = <<>>

\* ------------------------------------- claims on results and their tables

\* What the selector of the client returns for u from the tables as the
\* module defines them.
Pristine(u, rnd) ==
  IF client = "api" THEN mockAnalyzeUrl(u, rnd).data ELSE analyzeUrl(u, rnd).value

\* C23 as stated: whatever a caller has changed in the result it was given,
\* a later analysis returns what it would have returned otherwise.
C23_ResultIsDeepCopy ==
  later # Null => later[1].value = Pristine(later[1].url, later[1].rnd)

\* C24: once loadingState is loading it becomes success with analysisResult
\* set, or error with error set, and it never goes from loading to idle.
C24_LoadingEnds ==
  /\ (loadingState = "loading") ~>
        ((loadingState = "success" /\ analysisResult # Null)
           \/ (loadingState = "error" /\ error # Null))
  /\ [][loadingState = "loading" => loadingState' # "idle"]_vars

\* The analysis of blog.example.com has come back.
C24_Witness ==
  /\ url = BlogHost
  /\ loadingState = "success"
  /\ analysisResult # Null
  /\ analysisResult[1].score = 94
  /\ pending = <<>>

\* The results panel is on the screen: it is rendered and renderResults
\* finds every field it reads.
ResultsShown == ResultsRendered /\ Renders(analysisResult[1])

\* C25 as stated: exactly one of the form, the results panel and the error
\* panel is on the screen; in the success state analysisResult is a complete
\* result, and in the error state error is set.
C25_ExactlyOnePanel ==
  /\ Cardinality({p \in {"form", "results", "error"} :
                    \/ p = "form" /\ FormRendered
                    \/ p = "results" /\ ResultsShown
                    \/ p = "error" /\ ErrorPanelRendered}) = 1
  /\ loadingState = "success" => analysisResult # Null /\ Renders(analysisResult[1])
  /\ loadingState = "error" => error # Null

\* r without its timestamp.
WithoutTimestamp(r) == [f \in DOMAIN r \ {"timestamp"} |-> r[f]]

\* C26: mockAnalysisData and MOCK_RESPONSES have the same three keys and,
\* timestamps apart, the same records; and for a URL whose hostname is one
\* of the three, what either selector has returned is, timestamp apart, what
\* mockAnalyzeUrl resolves with and what analyzeUrl returns for that URL.
C26_SelectorsAgreeOnFixedHosts ==
  /\ DOMAIN mockAnalysisData = FixedHosts
  /\ DOMAIN MOCK_RESPONSES = FixedHosts
  /\ \A h \in FixedHosts :
       WithoutTimestamp(mockAnalysisData[h]) = WithoutTimestamp(MOCK_RESPONSES[h])
  /\ \A s \in Selected :
       HostnameOf(s.target) \in FixedHosts =>
         /\ WithoutTimestamp(s.value) = WithoutTimestamp(mockAnalyzeUrl(s.target, 0).data)
         /\ WithoutTimestamp(s.value) = WithoutTimestamp(analyzeUrl(s.target, 0).value)

\* mockAnalyzeUrl has resolved for the shop, called with a port.
C26_Witness ==
  /\ apiCall = <<HttpsPrefix \o ShopHost \o <<":","8","0","8","0">> >>
  /\ apiResponse # Null
  /\ apiResponse[1].success
  /\ apiResponse[1].data.score = 52

\* C27 as stated: mockAnalyzeUrl resolves with success true, data and no
\* error, or with success false, an INVALID_URL error and no data; and data
\* is a complete result whose url is the argument.
C27_ResponseIsWellFormed ==
  apiResponse # Null =>
    IF apiResponse[1].success
    THEN /\ DOMAIN apiResponse[1] = {"success", "data"}
         /\ Renders(apiResponse[1].data)
         /\ apiResponse[1].data.url = apiCall[1]
    ELSE /\ DOMAIN apiResponse[1] = {"success", "error"}
         /\ apiResponse[1].error.code = "INVALID_URL"

\* C28 as stated: in every result a selector returns, h1Count is the length
\* of h1Text, altTextMissing is imageCount at most, readingTime is
\* calculateReadingTime(wordCount), and score and pageSpeed.score are in
\* 0..100.
C28_RecordsAreConsistent ==
  \A s \in Selected :
    /\ Renders(s.value)
    /\ s.value.headings.h1Count = Len(s.value.headings.h1Text)
    /\ s.value.content.altTextMissing <= s.value.content.imageCount
    /\ s.value.content.readingTime = calculateReadingTime(s.value.content.wordCount)
    /\ s.value.score \in 0..100
    /\ s.value.pageSpeed.score \in 0..100

\* C29: normalizeUrl of what normalizeUrl returned is that again, and for
\* an input that is not blank validateUrl of normalizeUrl(input) is what
\* validateUrl returns for the input.
C29_NormalizeIsIdempotent ==
  /\ Called("normalizeUrl") => normalizeUrl(Returned) = Returned
  /\ (Called("validateUrl") /\ ~IsBlank(input)) =>
       validateUrl(normalizeUrl(input)) = Returned

\* normalizeUrl('ftp://example.com') has put https:// in front.
C29_Witness ==
  /\ Called("normalizeUrl")
  /\ input = FtpExample
  /\ Returned = HttpsPrefix \o FtpExample
  /\ normalizeUrl(Returned) = Returned

====
